---- MODULE Spec2Model ----
(***************************************************************************)
(* A model of script.py: the weekly status report writer.  main reads the  *)
(* end offset of a Google Doc and hands a three-slot summary to one of two *)
(* planners, append_bullet_summary_to_doc (one batch, forward cursor) or   *)
(* append_table_summary_to_doc (structural batch, read-back, content batch *)
(* in descending offset order).                                            *)
(* in descending offset order).  Before that main fetches the commits     *)
(* (get_commits), asks the generator for a summary and parses it           *)
(* (parse_structured_response); these steps, and the line normalizer of    *)
(* the planners, also have specifications of their own below.              *)
(*                                                                         *)
(* A Python str is a sequence of one-character strings; len is Len (code   *)
(* points).  The remote document is a sequence of index units: one unit    *)
(* per structural element and per UTF-16 code unit of text, so a character *)
(* outside the basic plane takes two units.  Offset i of the document is   *)
(* the place between unit i and unit i+1 of the sequence.                  *)
(***************************************************************************)
EXTENDS Integers, Sequences, FiniteSets, TLC

VARIABLES
    pc,            \* position of main / the running planner
    format,        \* args.format
    parsed_info,   \* the three raw slot texts
    doc,           \* the remote document
    end_index,     \* main's end_index (0 before it is read)
    requests,      \* the planner's first (or only) batch
    cursor,        \* the bullet planner's cursor
    sec,           \* the bullet planner's loop position, 1..4
    table_rows,    \* the table planner's four cell strings
    cell_indexes,  \* the locators taken from the read-back
    text_requests, \* the table planner's content batch
    calls,         \* every round trip to the document service, in order
    exc,           \* the exception that ended the planner, or "none"
    exitCode,      \* the process exit code, -1 while running
    otherEdits,    \* edits made by another editor of the document
    from_date,     \* the start of the period, or None
    to_date,       \* the end of the period, or None
    pages,         \* the chain of result pages the repository host serves
    url,           \* get_commits: the page to request next
    commits,       \* get_commits: the records collected so far
    fetch_log,     \* every request get_commits made, in order
    gemini_calls,  \* the calls made to the text generator
    gemini_response, \* the text the generator returned
    raw_text,      \* the raw text handed to the line normalizer
    line_block     \* the LineBlock the normalizer made of it

vars == <<pc, format, parsed_info, doc, end_index, requests, cursor, sec,
          table_rows, cell_indexes, text_requests, calls, exc, exitCode,
          otherEdits, from_date, to_date, pages, url, commits, fetch_log,
          gemini_calls, gemini_response, raw_text, line_block>>

\* the state of the steps of main that precede the planners
preVars == <<from_date, to_date, pages, url, commits, fetch_log,
             gemini_calls, gemini_response, raw_text, line_block>>

----------------------------------------------------------------------------
(* Bounds of the model. *)

\* lines per raw slot text
MaxLines == 2
\* characters of text in the document before the run
MaxOrig == 0
\* edits by another editor during one run
MaxOtherEdits == 1
\* commits in a chain of result pages
MaxCommits == 3
\* pages in a chain
MaxPages == 2
\* characters of a raw text handed to the normalizer
MaxRaw == 4
\* pieces (tags, characters) of a text handed to the parser
MaxPieces == 4

----------------------------------------------------------------------------
(* Python strings. *)

\* "\n" is the only line boundary among the modelled characters.
NL == "\n"

\* the tab: white space that is neither a line boundary nor a marker
Tab == "\t"

\* A character outside the basic multilingual plane: len counts it once,
\* the document indexes it as two UTF-16 code units.
Wide == "U1F389"

Units(c) == IF c = Wide THEN <<"U1F389.hi", "U1F389.lo">> ELSE <<c>>

RECURSIVE Encode(_)
\* the index units a text occupies in the document
Encode(s) == IF s = <<>> THEN <<>> ELSE Units(Head(s)) \o Encode(Tail(s))

RECURSIVE LStrip(_, _)
LStrip(s, cs) ==
    IF s # <<>> /\ Head(s) \in cs THEN LStrip(Tail(s), cs) ELSE s

RECURSIVE RStrip(_, _)
RStrip(s, cs) ==
    IF s # <<>> /\ s[Len(s)] \in cs THEN RStrip(SubSeq(s, 1, Len(s) - 1), cs)
    ELSE s

\* str.strip(chars): both ends
StripChars(s, cs) == RStrip(LStrip(s, cs), cs)

\* str.strip(): whitespace, both ends
StripSpace(s) == StripChars(s, {" ", NL, Tab})

FirstNL(s) ==
    IF \E i \in 1..Len(s) : s[i] = NL
    THEN CHOOSE i \in 1..Len(s) : s[i] = NL /\ \A j \in 1..(i - 1) : s[j] # NL
    ELSE 0

RECURSIVE SplitLines(_)
\* str.splitlines(): no empty last line after a final line boundary
SplitLines(s) ==
    IF s = <<>> THEN <<>>
    ELSE IF FirstNL(s) = 0 THEN <<s>>
    ELSE <<SubSeq(s, 1, FirstNL(s) - 1)>>
             \o SplitLines(SubSeq(s, FirstNL(s) + 1, Len(s)))

RECURSIVE Join(_, _)
\* sep.join(lines)
Join(lines, sep) ==
    IF lines = <<>> THEN <<>>
    ELSE IF Len(lines) = 1 THEN lines[1]
    ELSE lines[1] \o sep \o Join(Tail(lines), sep)

----------------------------------------------------------------------------
(* Text constants of the program. *)

date_heading ==
    <<"W", "e", "e", "k", "l", "y", " ", "S", "t", "a", "t", "u", "s", " ",
      "R", "e", "p", "o", "r", "t", NL>>

section_titles ==
    << <<"1", ".", " ", "T", "a", "s", "k", "s", " ", "c", "o", "m", "p", "l",
         "e", "t", "e", "d", " ", "1", "0", "0", "%", ":">>,
       <<"2", ".", " ", "T", "a", "s", "k", "s", " ", "c", "o", "n", "t", "i",
         "n", "u", "e", " ", "t", "o", " ", "w", "o", "r", "k", " ", "o", "n",
         ":">>,
       <<"3", ".", " ", "N", "e", "w", " ", "t", "a", "s", "k", "s", " ", "s",
         "t", "a", "r", "t", "e", "d", ":">> >>

\* The characters of line.strip("...") as the source file holds them:
\* hyphen, U+201A, U+00C4, U+00A2 and space.
MarkerChars == {"-", "U201A", "U00C4", "U00A2", " "}

\* The per-bucket marker strings of format_bullet_text, as the source file
\* holds them (three, three and four characters of the basic plane).
BulletGlyph(tag) ==
    CASE tag = "completed"  -> <<"U201A", "U00FA", "U00D6">>
      [] tag = "inprogress" -> <<"U201A", "U00E8", "U2265">>
      [] tag = "new"        -> <<"UF8FF", "U00FC", "U00DC", "U00EF">>
      [] OTHER              -> <<>>

----------------------------------------------------------------------------
(* The line normalizer (the list comprehension of both planners). *)

RECURSIVE NormalizeLines(_)
NormalizeLines(lines) ==
    IF lines = <<>> THEN <<>>
    ELSE IF StripSpace(Head(lines)) = <<>> THEN NormalizeLines(Tail(lines))
    ELSE <<StripSpace(StripChars(Head(lines), MarkerChars))>>
             \o NormalizeLines(Tail(lines))

bullet_lines(data) == NormalizeLines(SplitLines(data))

\* bullet_text without the final newline
bullet_textNoNewline(data) == Join(bullet_lines(data), <<NL>>)

bullet_text(data) == Join(bullet_lines(data), <<NL>>) \o <<NL>>

----------------------------------------------------------------------------
(* The document service (Google Docs API), as the program uses it. *)

\* units that are elements of the structure, not text of a paragraph
Structural == {"<section>", "<table>", "<row>", "<cell>", "</table>"}

Rep(u, n) == [i \in 1..n |-> u]

RECURSIVE Flatten(_)
Flatten(ss) == IF ss = <<>> THEN <<>> ELSE Head(ss) \o Flatten(Tail(ss))

\* doc["body"]["content"][-1]["endIndex"]
EndIndexOf(d) == Len(d)

\* the document with the units u put at offset i
Insert(d, i, u) == SubSeq(d, 1, i) \o u \o SubSeq(d, i + 1, Len(d))

\* An insertion offset must lie inside a paragraph: after the start of the
\* body, before the end of the segment, and not in front of a structural
\* element.
InsertValid(d, i) == 1 <= i /\ i < Len(d) /\ d[i + 1] \notin Structural

RangeValid(d, s, e) == 1 <= s /\ s < e /\ e <= Len(d)

\* An empty table: a newline, then the table, each cell an empty paragraph.
TableUnits(rows, cols) ==
    <<NL, "<table>">>
        \o Flatten(Rep(<<"<row>">> \o Flatten(Rep(<<"<cell>", NL>>, cols)), rows))
        \o <<"</table>">>

\* A page break takes one unit, or two when a newline follows it.
PageBreakUnits(pb) == IF pb = 2 THEN <<"<pagebreak>", NL>> ELSE <<"<pagebreak>">>

OpValid(d, op) ==
    CASE op.type \in {"insertText", "insertPageBreak", "insertTable"} ->
             InsertValid(d, op.index)
      [] op.type \in {"updateTextStyle", "createParagraphBullets"} ->
             RangeValid(d, op.startIndex, op.endIndex)

\* one request of a batch applied to the document
ApplyOp(d, op, pb) ==
    CASE op.type = "insertText"      -> Insert(d, op.index, Encode(op.text))
      [] op.type = "insertPageBreak" -> Insert(d, op.index, PageBreakUnits(pb))
      [] op.type = "insertTable"     ->
             Insert(d, op.index, TableUnits(op.rows, op.columns))
      [] OTHER                       -> d

RECURSIVE DocAfter(_, _, _, _)
\* the document after the first k requests of a batch, applied in list order
DocAfter(d, ops, k, pb) ==
    IF k = 0 THEN d ELSE ApplyOp(DocAfter(d, ops, k - 1, pb), ops[k], pb)

\* the service rejects a whole batch when one request is invalid at its turn
BatchValid(d, ops, pb) ==
    \A k \in 1..Len(ops) : OpValid(DocAfter(d, ops, k - 1, pb), ops[k])

Min(S) == CHOOSE x \in S : \A y \in S : x <= y

RECURSIVE Sorted(_)
Sorted(S) == IF S = {} THEN <<>> ELSE <<Min(S)>> \o Sorted(S \ {Min(S)})

\* [elem for elem in content if "table" in elem], by the place of each table
Tables(d) == Sorted({p \in 1..Len(d) : d[p] = "<table>"})

TableClose(d, t) == Min({p \in t..Len(d) : d[p] = "</table>"})

RowPositions(d, t) == Sorted({p \in t..TableClose(d, t) : d[p] = "<row>"})

RowClose(d, r) == Min({p \in (r + 1)..Len(d) : d[p] \in {"<row>", "</table>"}})

\* The startIndex of the first paragraph element of each cell of a row: the
\* offset right after the cell's own unit.
CellStarts(d, r) == Sorted({p \in r..RowClose(d, r) : d[p] = "<cell>"})

\* table["table"]["tableRows"]: per row, its cells' start offsets
TableRows(d, t) == [k \in 1..Len(RowPositions(d, t)) |-> CellStarts(d, RowPositions(d, t)[k])]

----------------------------------------------------------------------------
(* Requests, as the planners build them. *)

InsertPageBreak(i) == [type |-> "insertPageBreak", index |-> i]

InsertText(i, t) == [type |-> "insertText", index |-> i, text |-> t]

UpdateTextStyle(s, e) == [type |-> "updateTextStyle", startIndex |-> s, endIndex |-> e]

InsertTable(r, c, i) == [type |-> "insertTable", rows |-> r, columns |-> c, index |-> i]

CreateParagraphBullets(s, e) ==
    [type |-> "createParagraphBullets", startIndex |-> s, endIndex |-> e]

\* one round trip, as the log keeps it
Call(op, by, ok, body, result) ==
    [op |-> op, by |-> by, ok |-> ok, body |-> body, result |-> result]

Reverse(s) == [i \in 1..Len(s) |-> s[Len(s) + 1 - i]]

----------------------------------------------------------------------------
(* append_bullet_summary_to_doc *)

task_data(info) == <<info.completed, info.inprogress, info.new>>

\* the page break, the heading and its style
HeadingRequests(end) ==
    << InsertPageBreak(end - 1),
       InsertText(end, date_heading),
       UpdateTextStyle(end, end + Len(date_heading)) >>

title_text(title) == title \o <<NL>>

\* SectionRequests with a bullet range that ends one offset late
SectionRequestsLongRange(cur, title, data) ==
    << InsertText(cur, title_text(title)),
       InsertText(cur + Len(title_text(title)), bullet_text(data)),
       CreateParagraphBullets(cur + Len(title_text(title)),
                              cur + Len(title_text(title)) + Len(bullet_text(data)) + 1) >>

\* SectionRequests that leaves out the bullets of a section without lines
SectionRequestsSkipEmpty(cur, title, data) ==
    IF bullet_lines(data) = <<>>
    THEN << InsertText(cur, title_text(title)) >>
    ELSE << InsertText(cur, title_text(title)),
            InsertText(cur + Len(title_text(title)), bullet_text(data)),
            CreateParagraphBullets(cur + Len(title_text(title)),
                                   cur + Len(title_text(title)) + Len(bullet_text(data))) >>

\* the three requests of one pass of the loop, with the cursor at cur
SectionRequests(cur, title, data) ==
    << InsertText(cur, title_text(title)),
       InsertText(cur + Len(title_text(title)), bullet_text(data)),
       CreateParagraphBullets(cur + Len(title_text(title)),
                              cur + Len(title_text(title)) + Len(bullet_text(data))) >>

\* SectionCursor that advances by the title without its newline
SectionCursorBareTitle(cur, title, data) ==
    cur + Len(title) + Len(bullet_text(data))

\* the cursor after one pass of the loop
SectionCursor(cur, title, data) ==
    cur + Len(title_text(title)) + Len(bullet_text(data))

BulletHeading ==
    /\ pc = "bullet_plan"
    /\ requests' = HeadingRequests(end_index)
    /\ cursor' = end_index + Len(date_heading)
    /\ sec' = 1
    /\ pc' = "bullet_loop"
    /\ UNCHANGED <<format, parsed_info, doc, end_index, table_rows,
                   cell_indexes, text_requests, calls, exc, exitCode, otherEdits,
                   preVars>>

BulletSection ==
    /\ pc = "bullet_loop"
    /\ sec <= 3
    /\ requests' = requests
           \o SectionRequests(cursor, section_titles[sec], task_data(parsed_info)[sec])
    /\ cursor' = SectionCursor(cursor, section_titles[sec], task_data(parsed_info)[sec])
    /\ sec' = sec + 1
    /\ pc' = IF sec = 3 THEN "bullet_submit" ELSE "bullet_loop"
    /\ UNCHANGED <<format, parsed_info, doc, end_index, table_rows,
                   cell_indexes, text_requests, calls, exc, exitCode, otherEdits,
                   preVars>>

\* service.documents().batchUpdate(...).execute(): the call fails, or the
\* service applies the whole batch in list order.
BulletSubmit ==
    /\ pc = "bullet_submit"
    /\ \E ok \in BOOLEAN, pb \in 1..2 :
          /\ ok => BatchValid(doc, requests, pb)
          /\ calls' = Append(calls, Call("batchUpdate", "bullet", ok, requests, <<>>))
          /\ doc' = IF ok THEN DocAfter(doc, requests, Len(requests), pb) ELSE doc
          /\ exc' = IF ok THEN exc ELSE "HttpError"
          /\ pc' = IF ok THEN "main_ok" ELSE "main_except"
    /\ UNCHANGED <<format, parsed_info, end_index, requests, cursor, sec,
                   table_rows, cell_indexes, text_requests, exitCode, otherEdits,
                   preVars>>

----------------------------------------------------------------------------
(* append_table_summary_to_doc *)

RECURSIVE PrefixLines(_, _)
\* f"{bullet} {line}" for each line
PrefixLines(bullet, lines) ==
    IF lines = <<>> THEN <<>>
    ELSE <<bullet \o <<" ">> \o Head(lines)>> \o PrefixLines(bullet, Tail(lines))

format_bullet_text(text, tag) ==
    IF bullet_lines(text) # <<>>
    THEN Join(PrefixLines(BulletGlyph(tag), bullet_lines(text)), <<NL>>)
    ELSE <<>>

\* period_start and period_end as main formats them (dd-mm-YYYY)
period_start == <<"0", "1", "-", "0", "1", "-", "2", "0", "2", "4">>

period_end == <<"0", "7", "-", "0", "1", "-", "2", "0", "2", "4">>

\* the four cell strings with the second and the third section exchanged
TableRowTextsSwapped(info) ==
    << <<"P", "e", "r", "i", "o", "d", " ", "f", "r", "o", "m", " ">>
           \o period_start \o <<" ", "t", "o", " ">> \o period_end,
       section_titles[1] \o <<NL>> \o format_bullet_text(info.completed, "completed"),
       section_titles[3] \o <<NL>> \o format_bullet_text(info.new, "new"),
       section_titles[2] \o <<NL>> \o format_bullet_text(info.inprogress, "inprogress") >>

TableRowTexts(info) ==
    << <<"P", "e", "r", "i", "o", "d", " ", "f", "r", "o", "m", " ">>
           \o period_start \o <<" ", "t", "o", " ">> \o period_end,
       section_titles[1] \o <<NL>> \o format_bullet_text(info.completed, "completed"),
       section_titles[2] \o <<NL>> \o format_bullet_text(info.inprogress, "inprogress"),
       section_titles[3] \o <<NL>> \o format_bullet_text(info.new, "new") >>

\* the structural batch: page break, heading, style, an empty table
StructuralRequests(end, rows) ==
    HeadingRequests(end) \o <<InsertTable(Len(rows), 1, end + Len(date_heading))>>

\* ZipRows with the pairs listed last row first
ZipRowsBackward(rows, indexes) ==
    [k \in 1..(IF Len(rows) < Len(indexes) THEN Len(rows) ELSE Len(indexes)) |->
        [text |-> rows[(IF Len(rows) < Len(indexes) THEN Len(rows) ELSE Len(indexes)) + 1 - k],
         index |-> indexes[(IF Len(rows) < Len(indexes) THEN Len(rows) ELSE Len(indexes)) + 1 - k]]]

\* list(zip(table_rows, cell_indexes)): as long as the shorter of the two
ZipRows(rows, indexes) ==
    [k \in 1..(IF Len(rows) < Len(indexes) THEN Len(rows) ELSE Len(indexes)) |->
        [text |-> rows[k], index |-> indexes[k]]]

\* ContentRequests without reversed(): the pairs in row order
ContentRequestsForward(rows, indexes) ==
    [k \in 1..Len(ZipRows(rows, indexes)) |->
        InsertText(ZipRows(rows, indexes)[k].index, ZipRows(rows, indexes)[k].text)]

\* the content batch: one insert per pair, last pair first
ContentRequests(rows, indexes) ==
    [k \in 1..Len(ZipRows(rows, indexes)) |->
        InsertText(Reverse(ZipRows(rows, indexes))[k].index,
                   Reverse(ZipRows(rows, indexes))[k].text)]

TablePlanStructure ==
    /\ pc = "table_plan"
    /\ table_rows' = TableRowTexts(parsed_info)
    /\ requests' = StructuralRequests(end_index, TableRowTexts(parsed_info))
    /\ pc' = "table_submit1"
    /\ UNCHANGED <<format, parsed_info, doc, end_index, cursor, sec,
                   cell_indexes, text_requests, calls, exc, exitCode, otherEdits,
                   preVars>>

\* TableSubmitStructure with the failure of the call swallowed: the planner
\* goes on to the read-back either way
TableSubmitStructureSwallow ==
    /\ pc = "table_submit1"
    /\ \E ok \in BOOLEAN, pb \in 1..2 :
          /\ ok => BatchValid(doc, requests, pb)
          /\ calls' = Append(calls, Call("batchUpdate", "table", ok, requests, <<>>))
          /\ doc' = IF ok THEN DocAfter(doc, requests, Len(requests), pb) ELSE doc
          /\ exc' = exc
          /\ pc' = "table_read"
    /\ UNCHANGED <<format, parsed_info, end_index, requests, cursor, sec,
                   table_rows, cell_indexes, text_requests, exitCode, otherEdits,
                   preVars>>

TableSubmitStructure ==
    /\ pc = "table_submit1"
    /\ \E ok \in BOOLEAN, pb \in 1..2 :
          /\ ok => BatchValid(doc, requests, pb)
          /\ calls' = Append(calls, Call("batchUpdate", "table", ok, requests, <<>>))
          /\ doc' = IF ok THEN DocAfter(doc, requests, Len(requests), pb) ELSE doc
          /\ exc' = IF ok THEN exc ELSE "HttpError"
          /\ pc' = IF ok THEN "table_read" ELSE "main_except"
    /\ UNCHANGED <<format, parsed_info, end_index, requests, cursor, sec,
                   table_rows, cell_indexes, text_requests, exitCode, otherEdits,
                   preVars>>

\* the rows of tables[0]
LastTableRowsFirst(d) == TableRows(d, Tables(d)[1])

\* the rows of tables[-1], as the read-back returns them
LastTableRows(d) == TableRows(d, Tables(d)[Len(Tables(d))])

\* what the read-back step raises on this document, or "none"
ReadBackError(d) ==
    IF Tables(d) = <<>> THEN "ValueError"
    ELSE IF \E k \in 1..Len(LastTableRows(d)) : LastTableRows(d)[k] = <<>>
    THEN "IndexError"
    ELSE "none"

\* row["tableCells"][0]...["startIndex"] for each row of the table
CellIndexes(rows) == [k \in 1..Len(rows) |-> rows[k][1]]

TableReadBack ==
    /\ pc = "table_read"
    /\ \E ok \in BOOLEAN :
          /\ calls' = Append(calls,
                 Call("get", "table", ok, <<>>,
                      IF ok /\ Tables(doc) # <<>> THEN LastTableRows(doc) ELSE <<>>))
          /\ exc' = IF ~ok THEN "HttpError"
                    ELSE IF ReadBackError(doc) # "none" THEN ReadBackError(doc)
                    ELSE exc
          /\ cell_indexes' = IF ok /\ ReadBackError(doc) = "none"
                             THEN CellIndexes(LastTableRows(doc))
                             ELSE cell_indexes
          /\ pc' = IF ok /\ ReadBackError(doc) = "none" THEN "table_content"
                   ELSE "main_except"
    /\ UNCHANGED <<format, parsed_info, doc, end_index, requests, cursor, sec,
                   table_rows, text_requests, exitCode, otherEdits,
                   preVars>>

TablePlanContent ==
    /\ pc = "table_content"
    /\ text_requests' = ContentRequests(table_rows, cell_indexes)
    /\ pc' = "table_submit2"
    /\ UNCHANGED <<format, parsed_info, doc, end_index, requests, cursor, sec,
                   table_rows, cell_indexes, calls, exc, exitCode, otherEdits,
                   preVars>>

\* TableSubmitContent with a retry: after a failed call the planner is back
\* at the submission
TableSubmitContentRetry ==
    /\ pc = "table_submit2"
    /\ \E ok \in BOOLEAN :
          /\ ok => BatchValid(doc, text_requests, 2)
          /\ Len(calls) < 6
          /\ calls' = Append(calls, Call("batchUpdate", "table", ok, text_requests, <<>>))
          /\ doc' = IF ok THEN DocAfter(doc, text_requests, Len(text_requests), 2)
                    ELSE doc
          /\ exc' = exc
          /\ pc' = IF ok THEN "main_ok" ELSE "table_submit2"
    /\ UNCHANGED <<format, parsed_info, end_index, requests, cursor, sec,
                   table_rows, cell_indexes, text_requests, exitCode, otherEdits,
                   preVars>>

TableSubmitContent ==
    /\ pc = "table_submit2"
    /\ \E ok \in BOOLEAN :
          /\ ok => BatchValid(doc, text_requests, 2)
          /\ calls' = Append(calls, Call("batchUpdate", "table", ok, text_requests, <<>>))
          /\ doc' = IF ok THEN DocAfter(doc, text_requests, Len(text_requests), 2)
                    ELSE doc
          /\ exc' = IF ok THEN exc ELSE "HttpError"
          /\ pc' = IF ok THEN "main_ok" ELSE "main_except"
    /\ UNCHANGED <<format, parsed_info, end_index, requests, cursor, sec,
                   table_rows, cell_indexes, text_requests, exitCode, otherEdits,
                   preVars>>

----------------------------------------------------------------------------
(* main, from "Writing to Google Doc..." on *)

\* doc = service.documents().get(...).execute(); end_index = ...["endIndex"];
\* then the planner the format argument selects
MainReadDoc ==
    /\ pc = "main_read"
    /\ \E ok \in BOOLEAN :
          /\ calls' = Append(calls, Call("get", "main", ok, <<>>, <<>>))
          /\ end_index' = IF ok THEN EndIndexOf(doc) ELSE end_index
          /\ exc' = IF ok THEN exc ELSE "HttpError"
          /\ pc' = IF ~ok THEN "main_except"
                   ELSE IF format = "table" THEN "table_plan" ELSE "bullet_plan"
    /\ UNCHANGED <<format, parsed_info, doc, requests, cursor, sec, table_rows,
                   cell_indexes, text_requests, exitCode, otherEdits,
                   preVars>>

\* the planner returned: the success message
MainSuccess ==
    /\ pc = "main_ok"
    /\ exitCode' = 0
    /\ pc' = "done"
    /\ UNCHANGED <<format, parsed_info, doc, end_index, requests, cursor, sec,
                   table_rows, cell_indexes, text_requests, calls, exc, otherEdits,
                   preVars>>

\* except Exception as e: print(...); exit(1)
MainExcept ==
    /\ pc = "main_except"
    /\ exitCode' = 1
    /\ pc' = "done"
    /\ UNCHANGED <<format, parsed_info, doc, end_index, requests, cursor, sec,
                   table_rows, cell_indexes, text_requests, calls, exc, otherEdits,
                   preVars>>

----------------------------------------------------------------------------
(* parse_structured_response *)

TagName(tag) ==
    CASE tag = "completed"  -> <<"c", "o", "m", "p", "l", "e", "t", "e", "d">>
      [] tag = "inprogress" -> <<"i", "n", "p", "r", "o", "g", "r", "e", "s", "s">>
      [] tag = "new"        -> <<"n", "e", "w">>

\* the literal parts of the pattern fr"<{tag}>(.*?)</{tag}>"
OpenTag(tag) == <<"<">> \o TagName(tag) \o <<">">>

CloseTag(tag) == <<"<", "/">> \o TagName(tag) \o <<">">>

\* the literal lit matches the text s from position i on
MatchesAt(s, i, lit) ==
    /\ i + Len(lit) - 1 <= Len(s)
    /\ SubSeq(s, i, i + Len(lit) - 1) = lit

\* the places where the closing literal can end a match begun at i
ClosingAfter(s, i, tag) ==
    { j \in (i + Len(OpenTag(tag)))..Len(s) : MatchesAt(s, j, CloseTag(tag)) }

\* the places where re.search can begin a match of the whole pattern
MatchStarts(s, tag) ==
    { i \in 1..Len(s) : MatchesAt(s, i, OpenTag(tag)) /\ ClosingAfter(s, i, tag) # {} }

\* extract with a greedy group: (.*) runs to the last closing literal
extractGreedy(response, tag) ==
    IF MatchStarts(response, tag) = {} THEN <<>>
    ELSE LET i == Min(MatchStarts(response, tag))
             j == CHOOSE x \in ClosingAfter(response, i, tag) :
                      \A y \in ClosingAfter(response, i, tag) : y <= x
         IN  StripSpace(SubSeq(response, i + Len(OpenTag(tag)), j - 1))

\* extract(tag): re.search takes the leftmost place where the pattern
\* matches; the lazy group (.*?), with DOTALL, ends at the nearest closing
\* literal; group(1).strip(), or "" without a match
extract(response, tag) ==
    IF MatchStarts(response, tag) = {} THEN <<>>
    ELSE LET i == Min(MatchStarts(response, tag))
             j == Min(ClosingAfter(response, i, tag))
         IN  StripSpace(SubSeq(response, i + Len(OpenTag(tag)), j - 1))

parse_structured_response(response) ==
    [completed  |-> extract(response, "completed"),
     inprogress |-> extract(response, "inprogress"),
     new        |-> extract(response, "new")]

\* parsed_info = parse_structured_response(gemini_response)
MainParse ==
    /\ pc = "main_parse"
    /\ parsed_info' = parse_structured_response(gemini_response)
    /\ pc' = "main_read"
    /\ UNCHANGED <<format, doc, end_index, requests, cursor, sec, table_rows,
                   cell_indexes, text_requests, calls, exc, exitCode, otherEdits,
                   from_date, to_date, pages, url, commits, fetch_log,
                   gemini_calls, gemini_response, raw_text, line_block>>

----------------------------------------------------------------------------
(* The line normalizer applied to one raw text: the list comprehension    *)
(* of append_bullet_summary_to_doc and of format_bullet_text.             *)

NormalizeText ==
    /\ pc = "normalize"
    /\ line_block' = bullet_lines(raw_text)
    /\ pc' = "normalized"
    /\ UNCHANGED <<format, parsed_info, doc, end_index, requests, cursor, sec,
                   table_rows, cell_indexes, text_requests, calls, exc,
                   exitCode, otherEdits, from_date, to_date, pages, url,
                   commits, fetch_log, gemini_calls, gemini_response, raw_text>>

----------------------------------------------------------------------------
(* get_commits *)

\* the period of the report, in half days
PeriodFrom == 2

PeriodTo == 3

\* None, the default of from_date and to_date
None == -1

BITBUCKET_EMAIL == "me@example.com"

BITBUCKET_USERNAME == "me"

\* any(email in raw_email for email in allowed_emails) or
\* username in allowed_usernames; the raw author is a sequence of words
AuthorAllowed(commit) ==
    \/ \E i \in 1..Len(commit.raw) : commit.raw[i] = BITBUCKET_EMAIL
    \/ commit.username = BITBUCKET_USERNAME

\* (?i): the capital letter among the modelled characters
Lower(c) == IF c = "M" THEN "m" ELSE c

\* \w among the modelled characters
WordChars == {"M", "m", "e", "r", "g", "d", "f", "i", "x", "_"}

\* re.match(r"(?i)^merge\b", message)
IsMerge(message) ==
    /\ Len(message) >= 5
    /\ [i \in 1..5 |-> Lower(message[i])] = <<"m", "e", "r", "g", "e">>
    /\ (Len(message) = 5 \/ message[6] \notin WordChars)

\* commit_date.strftime("%Y-%m-%d"): instants are counted in half days
DateOnly(t) == t \div 2

CommitUrl(hash_id) == <<"https://bitbucket.org/commits/", hash_id>>

CommitRecord(commit) ==
    [date    |-> DateOnly(commit.date),
     message |-> StripSpace(commit.message),
     url     |-> CommitUrl(commit.hash)]

RECURSIVE ProcessValuesKeepMerges(_, _, _, _)
\* the loop over a page without the test for merge messages
ProcessValuesKeepMerges(values, acc, from, to) ==
    IF values = <<>> THEN [commits |-> acc, stop_fetching |-> FALSE]
    ELSE LET commit == Head(values) IN
         IF commit.date < from THEN [commits |-> acc, stop_fetching |-> TRUE]
         ELSE IF commit.date > to
              THEN ProcessValuesKeepMerges(Tail(values), acc, from, to)
         ELSE IF ~AuthorAllowed(commit)
              THEN ProcessValuesKeepMerges(Tail(values), acc, from, to)
         ELSE ProcessValuesKeepMerges(Tail(values),
                                      Append(acc, CommitRecord(commit)), from, to)

RECURSIVE ProcessValues(_, _, _, _)
\* for commit in data.get("values", []): what the loop appends to commits,
\* and whether it left with stop_fetching set
ProcessValues(values, acc, from, to) ==
    IF values = <<>> THEN [commits |-> acc, stop_fetching |-> FALSE]
    ELSE LET commit == Head(values) IN
         IF commit.date < from THEN [commits |-> acc, stop_fetching |-> TRUE]
         ELSE IF commit.date > to
              THEN ProcessValues(Tail(values), acc, from, to)
         ELSE IF ~AuthorAllowed(commit)
              THEN ProcessValues(Tail(values), acc, from, to)
         ELSE IF IsMerge(StripSpace(commit.message))
              THEN ProcessValues(Tail(values), acc, from, to)
         ELSE ProcessValues(Tail(values), Append(acc, CommitRecord(commit)),
                            from, to)

\* the first URL is built, then: if not from_date or not to_date: return [];
\* otherwise commits = [] and the loop is entered
GetCommitsStart ==
    /\ pc = "get_commits"
    /\ url' = 1
    /\ commits' = <<>>
    /\ pc' = IF from_date = None \/ to_date = None THEN "main_commits"
             ELSE "fetch_loop"
    /\ UNCHANGED <<format, parsed_info, doc, end_index, requests, cursor, sec,
                   table_rows, cell_indexes, text_requests, calls, exc,
                   exitCode, otherEdits, from_date, to_date, pages, fetch_log,
                   gemini_calls, gemini_response, raw_text, line_block>>

\* one turn of while url: the request, the loop over the page's commits,
\* and either the break (and the return) or url = data.get("next")
GetCommitsPage ==
    /\ pc = "fetch_loop"
    /\ url # 0
    /\ \E status_code \in {200, 500} :
          LET data == pages[url]
              seen == ProcessValues(data, commits, from_date, to_date)
              next == IF url < Len(pages) THEN url + 1 ELSE 0
          IN  /\ fetch_log' = Append(fetch_log, [page |-> url, status_code |-> status_code])
              /\ commits' = IF status_code = 200 THEN seen.commits ELSE commits
              /\ IF status_code # 200 \/ seen.stop_fetching \/ next = 0
                 THEN pc' = "main_commits" /\ url' = url
                 ELSE pc' = "fetch_loop" /\ url' = next
    /\ UNCHANGED <<format, parsed_info, doc, end_index, requests, cursor, sec,
                   table_rows, cell_indexes, text_requests, calls, exc,
                   exitCode, otherEdits, from_date, to_date, pages,
                   gemini_calls, gemini_response, raw_text, line_block>>

----------------------------------------------------------------------------
(* main, up to "Writing to Google Doc..." *)

\* the test of the fetched commits without the exit
MainCheckCommitsGoOn ==
    /\ pc = "main_commits"
    /\ pc' = "main_gemini"
    /\ UNCHANGED <<format, parsed_info, doc, end_index, requests, cursor, sec,
                   table_rows, cell_indexes, text_requests, calls, exc,
                   exitCode, otherEdits, preVars>>

\* if not commits: print(...); exit()
MainCheckCommits ==
    /\ pc = "main_commits"
    /\ IF commits = <<>>
       THEN pc' = "done" /\ exitCode' = 0
       ELSE pc' = "main_gemini" /\ exitCode' = exitCode
    /\ UNCHANGED <<format, parsed_info, doc, end_index, requests, cursor, sec,
                   table_rows, cell_indexes, text_requests, calls, exc,
                   otherEdits, preVars>>

\* the answer the prompt asks the generator for, given the three slot texts
TaggedSlot(tag, slot) ==
    OpenTag(tag) \o <<NL>> \o slot \o <<NL>> \o CloseTag(tag)

WellFormedResponse(info) ==
    TaggedSlot("completed", info.completed) \o <<NL, NL>>
        \o TaggedSlot("inprogress", info.inprogress) \o <<NL, NL>>
        \o TaggedSlot("new", info.new)

\* the slot texts of the answers of the generator in the runs from the start
FewTexts == { <<>>, <<"-", " ", "a">>, <<"-", " ", "a", NL, Wide>> }

\* what response.text.strip() may be: the answer asked for, or plain text
GeminiTexts ==
    { WellFormedResponse(info) :
          info \in [completed : FewTexts, inprogress : FewTexts, new : FewTexts] }
        \cup { <<"a">> }

\* gemini_response = get_structured_update_from_gemini(commits); an
\* exception of the generator is not caught: the process dies with it
MainGemini ==
    /\ pc = "main_gemini"
    /\ gemini_calls' = gemini_calls + 1
    /\ \E ok \in BOOLEAN :
          IF ok
          THEN /\ gemini_response' \in GeminiTexts
               /\ pc' = "main_parse"
               /\ UNCHANGED <<exc, exitCode>>
          ELSE /\ gemini_response' = gemini_response
               /\ exc' = "GeminiError"
               /\ exitCode' = 1
               /\ pc' = "done"
    /\ UNCHANGED <<format, parsed_info, doc, end_index, requests, cursor, sec,
                   table_rows, cell_indexes, text_requests, calls, otherEdits,
                   from_date, to_date, pages, url, commits, fetch_log,
                   raw_text, line_block>>

----------------------------------------------------------------------------
(* Inputs and the specification. *)

\* raw lines a slot may hold: a marked line of plain text, and a line of one
\* character outside the basic plane
LineChoices == { <<"-", " ", "a">>, <<Wide>> }

\* the raw slot texts: up to MaxLines lines
SlotTexts ==
    { Join(ls, <<NL>>) : ls \in UNION { [1..n -> LineChoices] : n \in 0..MaxLines } }

\* the document before the run: an empty body or some text, or a body that
\* holds the table of an earlier report
InitDocs ==
    { <<"<section>">> \o Rep("x", k) \o <<NL>> : k \in 0..MaxOrig }
        \cup { <<"<section>", NL, "<table>", "<row>", "<cell>", "x", NL, "</table>", NL>> }

\* a commit of the configured author within the period
ReportedCommit ==
    [date |-> 2, raw |-> <<"Me", BITBUCKET_EMAIL>>, username |-> "me",
     message |-> <<"f", "i", "x">>]

\* the commits a page may list: one to report, one before and one after
\* the period, one of a stranger, one matched by the username alone, and
\* one with a merge message
CommitKinds ==
    { ReportedCommit,
      [date |-> 1, raw |-> <<"Me", BITBUCKET_EMAIL>>, username |-> "me",
       message |-> <<"f", "i", "x">>],
      [date |-> 4, raw |-> <<"Me", BITBUCKET_EMAIL>>, username |-> "me",
       message |-> <<"f", "i", "x">>],
      [date |-> 3, raw |-> <<"Eve", "eve@example.com">>, username |-> "eve",
       message |-> <<"f", "i", "x">>],
      [date |-> 3, raw |-> <<"Me", "me@home.example">>, username |-> "me",
       message |-> <<"m", "e", "r", "g", "e", "d">>],
      [date |-> 2, raw |-> <<"Me", BITBUCKET_EMAIL>>, username |-> "me",
       message |-> <<" ", "M", "e", "r", "g", "e", " ", "x", NL>>] }

\* commit["hash"]: the place of the commit in the chain
WithHashes(cs) ==
    [i \in 1..Len(cs) |->
        [hash |-> i, date |-> cs[i].date, raw |-> cs[i].raw,
         username |-> cs[i].username, message |-> cs[i].message]]

\* where a chain of n pages over L commits is cut into pages
Cuts(n, L) ==
    { f \in [1..(n - 1) -> 0..L] : \A i \in 1..(n - 2) : f[i] <= f[i + 1] }

\* the pages of the chain: page k lists the commits between two cuts
PagesOf(cs, f, n) ==
    [k \in 1..n |->
        SubSeq(cs, (IF k = 1 THEN 0 ELSE f[k - 1]) + 1,
                   IF k = n THEN Len(cs) ELSE f[k])]

\* every chain of up to maxPages pages over up to maxCommits commits
Chains(maxCommits, maxPages) ==
    UNION { { PagesOf(WithHashes(cs), f, n) : f \in Cuts(n, Len(cs)) } :
              cs \in UNION { [1..m -> CommitKinds] : m \in 0..maxCommits },
              n \in 1..maxPages }

\* the chains of the runs from the start: one page of at most one commit
MainChains ==
    { <<WithHashes(cs)>> : cs \in UNION { [1..m -> CommitKinds] : m \in 0..1 } }

\* the raw texts handed to the normalizer
RawChars == {"a", "-", " ", Tab, NL}

RawTexts(maxRaw) == UNION { [1..n -> RawChars] : n \in 0..maxRaw }

\* the texts handed to the parser: tags and plain text in any order
Pieces ==
    { OpenTag("completed"), CloseTag("completed"), OpenTag("new"),
      CloseTag("new"), <<"a">>, <<" ">>, <<NL>> }

ParseInputs(maxPieces) ==
    { Flatten(ps) : ps \in UNION { [1..n -> Pieces] : n \in 0..maxPieces } }

NoInfo == [completed |-> <<>>, inprogress |-> <<>>, new |-> <<>>]

\* the planners have not begun
PlannersIdle ==
    /\ end_index = 0
    /\ requests = <<>>
    /\ cursor = 0
    /\ sec = 0
    /\ table_rows = <<>>
    /\ cell_indexes = <<>>
    /\ text_requests = <<>>
    /\ calls = <<>>
    /\ exc = "none"
    /\ exitCode = -1
    /\ otherEdits = 0

\* get_commits returned one commit from one page
FetchDone ==
    /\ from_date = PeriodFrom
    /\ to_date = PeriodTo
    /\ pages = <<WithHashes(<<ReportedCommit>>)>>
    /\ url = 1
    /\ commits = <<CommitRecord(pages[1][1])>>
    /\ fetch_log = <<[page |-> 1, status_code |-> 200]>>

\* the normalizer is not under study
NormalizerIdle == raw_text = <<>> /\ line_block = <<>>

Init ==
    /\ pc = "main_read"
    /\ format \in {"table", "bullet"}
    /\ parsed_info \in [completed : SlotTexts, inprogress : SlotTexts, new : SlotTexts]
    /\ doc \in InitDocs
    /\ end_index = 0
    /\ requests = <<>>
    /\ cursor = 0
    /\ sec = 0
    /\ table_rows = <<>>
    /\ cell_indexes = <<>>
    /\ text_requests = <<>>
    /\ calls = <<>>
    /\ exc = "none"
    /\ exitCode = -1
    /\ otherEdits = 0
    /\ FetchDone
    /\ gemini_calls = 1
    /\ gemini_response = WellFormedResponse(parsed_info)
    /\ NormalizerIdle

Next ==
    \/ MainReadDoc
    \/ BulletHeading
    \/ BulletSection
    \/ BulletSubmit
    \/ TablePlanStructure
    \/ TableSubmitStructure
    \/ TableReadBack
    \/ TablePlanContent
    \/ TableSubmitContent
    \/ MainSuccess
    \/ MainExcept

Spec == Init /\ [][Next]_vars

----------------------------------------------------------------------------
(* The run of main from its start: the fetch, the generator, the parser,  *)
(* then the planner, over few inputs.                                     *)

InitMain ==
    /\ pc = "get_commits"
    /\ format \in {"table", "bullet"}
    /\ parsed_info = NoInfo
    /\ doc \in InitDocs
    /\ PlannersIdle
    /\ from_date = PeriodFrom
    /\ to_date = PeriodTo
    /\ pages \in MainChains
    /\ url = 0
    /\ commits = <<>>
    /\ fetch_log = <<>>
    /\ gemini_calls = 0
    /\ gemini_response = <<>>
    /\ NormalizerIdle

NextMain ==
    \/ GetCommitsStart
    \/ GetCommitsPage
    \/ MainCheckCommits
    \/ MainGemini
    \/ MainParse
    \/ Next

SpecMain == InitMain /\ [][NextMain]_vars

----------------------------------------------------------------------------
(* get_commits alone: called with the two dates over every chain of       *)
(* pages, and without one of them over the chains of one short page.  The *)
(* loop is sequential code: it takes its next step.                       *)

InitFetch ==
    /\ \/ /\ from_date = PeriodFrom
          /\ to_date = PeriodTo
          /\ pages \in Chains(MaxCommits, MaxPages)
       \/ /\ from_date = None
          /\ to_date \in {None, PeriodTo}
          /\ pages \in MainChains
       \/ /\ from_date = PeriodFrom
          /\ to_date = None
          /\ pages \in MainChains
    /\ pc = "get_commits"
    /\ format = "table"
    /\ parsed_info = NoInfo
    /\ doc = <<"<section>", NL>>
    /\ PlannersIdle
    /\ url = 0
    /\ commits = <<>>
    /\ fetch_log = <<>>
    /\ gemini_calls = 0
    /\ gemini_response = <<>>
    /\ NormalizerIdle

NextFetch == GetCommitsStart \/ GetCommitsPage

SpecFetch == InitFetch /\ [][NextFetch]_vars /\ WF_vars(NextFetch)

----------------------------------------------------------------------------
(* parse_structured_response alone, over texts of tags and plain text. *)

InitParse ==
    /\ pc = "main_parse"
    /\ format = "table"
    /\ parsed_info = NoInfo
    /\ doc = <<"<section>", NL>>
    /\ PlannersIdle
    /\ FetchDone
    /\ gemini_calls = 1
    /\ gemini_response \in ParseInputs(MaxPieces)
    /\ NormalizerIdle

NextParse == MainParse

SpecParse == InitParse /\ [][NextParse]_vars

----------------------------------------------------------------------------
(* The line normalizer alone, over every short raw text. *)

InitNorm ==
    /\ pc = "normalize"
    /\ format = "table"
    /\ parsed_info = NoInfo
    /\ doc = <<"<section>", NL>>
    /\ PlannersIdle
    /\ FetchDone
    /\ gemini_calls = 1
    /\ gemini_response = <<>>
    /\ raw_text \in RawTexts(MaxRaw)
    /\ line_block = <<>>

NextNorm == NormalizeText

SpecNorm == InitNorm /\ [][NextNorm]_vars

----------------------------------------------------------------------------
(* Another editor of the same document.  Once the structural batch is     *)
(* applied, and until the content batch is submitted, it may change the   *)
(* table the planner works on or the text in front of it.                 *)

LastTable(d) == Tables(d)[Len(Tables(d))]

LastRow(d) == RowPositions(d, LastTable(d))[Len(RowPositions(d, LastTable(d)))]

RECURSIVE AddCellToRows(_, _)
\* one more empty cell at the end of each of the rows (given last row first)
AddCellToRows(d, rows) ==
    IF rows = <<>> THEN d
    ELSE AddCellToRows(Insert(d, RowClose(d, Head(rows)) - 1, <<"<cell>", NL>>),
                       Tail(rows))

OtherWindow ==
    /\ pc \in {"table_read", "table_content", "table_submit2"}
    /\ otherEdits < MaxOtherEdits
    /\ Tables(doc) # <<>>

OtherUnchanged ==
    UNCHANGED <<pc, format, parsed_info, end_index, requests, cursor, sec,
                table_rows, cell_indexes, text_requests, calls, exc, exitCode,
                preVars>>

\* the last row of the last table is deleted
OtherDeleteRow ==
    /\ OtherWindow
    /\ Len(RowPositions(doc, LastTable(doc))) >= 2
    /\ doc' = SubSeq(doc, 1, LastRow(doc) - 1)
                  \o SubSeq(doc, TableClose(doc, LastTable(doc)), Len(doc))
    /\ otherEdits' = otherEdits + 1
    /\ OtherUnchanged

\* a row is added at the end of the last table
OtherAddRow ==
    /\ OtherWindow
    /\ doc' = Insert(doc, TableClose(doc, LastTable(doc)) - 1, <<"<row>", "<cell>", NL>>)
    /\ otherEdits' = otherEdits + 1
    /\ OtherUnchanged

\* a column is added at the right of the last table
OtherAddColumn ==
    /\ OtherWindow
    /\ doc' = AddCellToRows(doc, Reverse(RowPositions(doc, LastTable(doc))))
    /\ otherEdits' = otherEdits + 1
    /\ OtherUnchanged

\* the last table is deleted, with the newline in front of it
OtherDeleteTable ==
    /\ OtherWindow
    /\ doc' = SubSeq(doc, 1, LastTable(doc) - 2)
                  \o SubSeq(doc, TableClose(doc, LastTable(doc)) + 1, Len(doc))
    /\ otherEdits' = otherEdits + 1
    /\ OtherUnchanged

\* a character is typed at the start of the body
OtherTypeText ==
    /\ OtherWindow
    /\ doc' = Insert(doc, 1, <<"x">>)
    /\ otherEdits' = otherEdits + 1
    /\ OtherUnchanged

OtherWriter ==
    \/ OtherDeleteRow
    \/ OtherAddRow
    \/ OtherAddColumn
    \/ OtherDeleteTable
    \/ OtherTypeText

NextShared == Next \/ OtherWriter

\* the run on a document that another editor has open
SpecShared == Init /\ [][NextShared]_vars

\* the runs of main from its start with another editor of the document
NextMainShared == NextMain \/ OtherWriter

SpecMainShared == InitMain /\ [][NextMainShared]_vars

----------------------------------------------------------------------------
(* Properties. *)

\* the start offset of the first cell of row r of the last table of d
FirstCellStart(d, r) == LastTableRows(d)[r][1]

\* The content batch is built and the locators are those of the document it
\* will be applied to: four rows, one locator each.
SnapshotOfFour ==
    /\ pc = "table_submit2"
    /\ Len(cell_indexes) = 4
    /\ ReadBackError(doc) = "none"
    /\ cell_indexes = CellIndexes(LastTableRows(doc))

\* C1: with four locators L0<L1<L2<L3 of one snapshot, the content batch is
\* one InsertText per row, at L3, L2, L1, L0 in that order with the row's own
\* text, and when the batch is applied in list order the locator of each
\* request is still the start of its own row's cell at the moment the request
\* is applied.
C1_DescendingKeepsLocators ==
    SnapshotOfFour =>
        /\ Len(text_requests) = 4
        /\ \A k \in 1..4 :
              /\ text_requests[k].type = "insertText"
              /\ text_requests[k].index = cell_indexes[5 - k]
              /\ text_requests[k].text = table_rows[5 - k]
              /\ FirstCellStart(DocAfter(doc, text_requests, k - 1, 2), 5 - k)
                     = text_requests[k].index
        /\ \A k \in 1..3 : text_requests[k].index > text_requests[k + 1].index

\* a content batch for four increasing locators, with bullet lines in a cell
C1_Witness ==
    /\ SnapshotOfFour
    /\ Len(text_requests) = 4
    /\ \A k \in 1..3 : cell_indexes[k] < cell_indexes[k + 1]
    /\ parsed_info.completed # <<>>

RECURSIVE InsertedUnits(_, _)
\* the units of the texts that the first k requests of a batch insert
InsertedUnits(ops, k) ==
    IF k = 0 THEN <<>>
    ELSE InsertedUnits(ops, k - 1)
             \o (IF ops[k].type = "insertText" THEN Encode(ops[k].text) ELSE <<>>)

\* the offset where the content inserted by the first k requests ends, in a
\* document whose end offset was end_index before the batch
TrueEnd(ops, k) == end_index + Len(InsertedUnits(ops, k))

\* the bullet planner's batch is complete and the document still ends at
\* the offset main read
AtBulletBatch == pc = "bullet_submit" /\ EndIndexOf(doc) = end_index

\* C2: applied in list order to a document that ends at insertion_point,
\* every request of the bullet planner's batch carries offsets that are valid
\* in the document as it stands right before the request: every insert goes
\* where the content inserted so far ends and leaves that content in one
\* piece, every range covers exactly the text it is meant for, and the
\* planner's cursor is the offset where the inserted content ends.
C2_OffsetsTrackDocument ==
    AtBulletBatch =>
        \A pb \in 1..2 :
            /\ \A k \in 1..Len(requests) :
                  /\ OpValid(DocAfter(doc, requests, k - 1, pb), requests[k])
                  /\ requests[k].type = "insertText" =>
                        /\ requests[k].index = TrueEnd(requests, k - 1)
                        /\ SubSeq(DocAfter(doc, requests, k, pb),
                                  end_index + 1, TrueEnd(requests, k))
                               = InsertedUnits(requests, k)
                  /\ requests[k].type \in {"updateTextStyle", "createParagraphBullets"} =>
                        /\ requests[k].startIndex = TrueEnd(requests, k - 2)
                        /\ requests[k].endIndex = TrueEnd(requests, k - 1)
            /\ cursor = TrueEnd(requests, Len(requests))

IsPlannerCall(c) == c.by # "main"

\* the round trips of the planner, in order
PlannerCalls == SelectSeq(calls, IsPlannerCall)

\* main is past the planner, which returned without an exception
PlannerReturned == pc = "main_ok" \/ (pc = "done" /\ exitCode = 0)

Range(f) == {f[i] : i \in DOMAIN f}

\* C3: the bullet planner makes one round trip, the submission of its batch,
\* and reads nothing.  The table planner makes its round trips in the order
\* structural batch, read-back, content batch, three of them when it
\* returns: the read-back follows a structural batch that succeeded, the
\* content batch follows a read-back that succeeded, and every locator of the
\* content batch is one that this read-back returned.
C3_RoundTripOrder ==
    /\ format = "bullet" =>
          /\ Len(PlannerCalls) <= 1
          /\ \A i \in 1..Len(PlannerCalls) :
                PlannerCalls[i].op = "batchUpdate" /\ PlannerCalls[i].body = requests
          /\ PlannerReturned => Len(PlannerCalls) = 1 /\ PlannerCalls[1].ok
    /\ format = "table" =>
          /\ Len(PlannerCalls) <= 3
          /\ Len(PlannerCalls) >= 1 =>
                /\ PlannerCalls[1].op = "batchUpdate"
                /\ PlannerCalls[1].body = requests
                /\ \E k \in 1..Len(requests) : requests[k].type = "insertTable"
          /\ Len(PlannerCalls) >= 2 =>
                /\ PlannerCalls[1].ok
                /\ PlannerCalls[2].op = "get"
          /\ Len(PlannerCalls) >= 3 =>
                /\ PlannerCalls[2].ok
                /\ PlannerCalls[3].op = "batchUpdate"
                /\ PlannerCalls[3].body = text_requests
                /\ \A k \in 1..Len(text_requests) :
                      /\ text_requests[k].type = "insertText"
                      /\ text_requests[k].index
                             \in Range(CellIndexes(PlannerCalls[2].result))
          /\ PlannerReturned =>
                Len(PlannerCalls) = 3 /\ \A i \in 1..3 : PlannerCalls[i].ok

\* the table planner returned after its three round trips
C3_Witness ==
    /\ format = "table"
    /\ PlannerReturned
    /\ Len(PlannerCalls) = 3
    /\ Len(PlannerCalls[3].body) = 4

\* C5: a round trip of a planner that failed is the last round trip of the
\* run (nothing is read or submitted after it, the call is not made again,
\* nothing is rolled back), and the failure is with main: the planner ended
\* with the exception, and the run ends with exit code 1.
C5_FailureEndsRun ==
    \A i \in 1..Len(calls) :
        (calls[i].by # "main" /\ ~calls[i].ok) =>
            /\ i = Len(calls)
            /\ exc = "HttpError"
            /\ pc \in {"main_except", "done"}
            /\ pc = "done" => exitCode = 1

\* the read-back failed after a structural batch that was applied
C5_Witness ==
    /\ Len(PlannerCalls) = 2
    /\ PlannerCalls[1].ok
    /\ ~PlannerCalls[2].ok
    /\ pc = "done"
    /\ \E p \in 1..Len(doc) : doc[p] = "<table>" /\ doc[p + 3] = NL

\* the bullet planner has built its whole batch
BulletBatchBuilt == format = "bullet" /\ sec = 4

\* C6: the final cursor of the bullet planner is insertion_point + len(H)
\* plus, for each of the three sections, the length of its title line as
\* inserted (the title and its newline), the length of its joined bullet
\* lines, and 1; lengths are len of the program's strings.
C6_FinalCursor ==
    BulletBatchBuilt =>
        cursor = end_index + Len(date_heading)
                   + (Len(section_titles[1] \o <<NL>>)
                        + Len(Join(bullet_lines(parsed_info.completed), <<NL>>)) + 1)
                   + (Len(section_titles[2] \o <<NL>>)
                        + Len(Join(bullet_lines(parsed_info.inprogress), <<NL>>)) + 1)
                   + (Len(section_titles[3] \o <<NL>>)
                        + Len(Join(bullet_lines(parsed_info.new), <<NL>>)) + 1)

\* the loop has run with two bullet lines in one section and none in another
C6_Witness ==
    /\ BulletBatchBuilt
    /\ Len(bullet_lines(parsed_info.completed)) = 2
    /\ bullet_lines(parsed_info.new) = <<>>
    /\ cursor > end_index + Len(date_heading)

\* every offset a request carries
Offsets(op) ==
    IF op.type \in {"updateTextStyle", "createParagraphBullets"}
    THEN {op.startIndex, op.endIndex}
    ELSE {op.index}

\* C7 as stated: every offset of every request of the bullet planner's
\* batch, the page-break location included, lies within
\* [insertion_point, final cursor].
C7_AllOffsetsInRange ==
    BulletBatchBuilt =>
        \A k \in 1..Len(requests) : \A o \in Offsets(requests[k]) :
            end_index <= o /\ o <= cursor

\* C7 amended: the page break is at insertion_point - 1, and every offset of
\* every other request of the bullet planner's batch lies within
\* [insertion_point, final cursor].
C7_OffsetsInRangeButPageBreak ==
    BulletBatchBuilt =>
        \A k \in 1..Len(requests) :
            IF requests[k].type = "insertPageBreak"
            THEN requests[k].index = end_index - 1
            ELSE \A o \in Offsets(requests[k]) : end_index <= o /\ o <= cursor

\* a complete batch whose last range ends at the final cursor
C7_Witness ==
    /\ BulletBatchBuilt
    /\ Len(requests) = 12
    /\ requests[12].endIndex = cursor
    /\ requests[1].index < end_index
    /\ parsed_info.inprogress # <<>>

\* the slot of section i
SlotOf(i) == task_data(parsed_info)[i]

\* C9: whatever the summary, the bullet planner's batch is twelve requests:
\* a page break at insertion_point - 1, the heading insert, the heading
\* style, then for completed, in-progress and new in that order the insert of
\* the section's title line, the insert of its bullet text and a bullet-list
\* mark whose range starts where the bullet text is inserted and has the
\* length of that text; a section without lines gets a bullet text of one
\* newline and a range of length 1.
C9_BatchStructure ==
    BulletBatchBuilt =>
        /\ Len(requests) = 12
        /\ requests[1] = InsertPageBreak(end_index - 1)
        /\ requests[2].type = "insertText" /\ requests[2].text = date_heading
        /\ requests[3].type = "updateTextStyle"
        /\ \A i \in 1..3 :
              /\ requests[3 * i + 1].type = "insertText"
              /\ requests[3 * i + 1].text = section_titles[i] \o <<NL>>
              /\ requests[3 * i + 2].type = "insertText"
              /\ requests[3 * i + 2].text = Join(bullet_lines(SlotOf(i)), <<NL>>) \o <<NL>>
              /\ requests[3 * i + 3].type = "createParagraphBullets"
              /\ requests[3 * i + 3].startIndex = requests[3 * i + 2].index
              /\ requests[3 * i + 3].endIndex
                     = requests[3 * i + 2].index + Len(requests[3 * i + 2].text)
              /\ bullet_lines(SlotOf(i)) = <<>> =>
                    /\ requests[3 * i + 2].text = <<NL>>
                    /\ requests[3 * i + 3].endIndex - requests[3 * i + 3].startIndex = 1

\* a batch for a summary with an empty bucket and a bucket of two lines
C9_Witness ==
    /\ BulletBatchBuilt
    /\ pc = "bullet_submit"
    /\ parsed_info.new = <<>>
    /\ Len(bullet_lines(parsed_info.inprogress)) = 2
    /\ requests[12].endIndex - requests[12].startIndex = 1

AllEmpty == parsed_info = [completed |-> <<>>, inprogress |-> <<>>, new |-> <<>>]

AllCallsOk == \A i \in 1..Len(calls) : calls[i].ok

\* C10: with the three slots empty, neither planner raises an error of its
\* own, each batch it builds is one the service accepts, and while every
\* round trip succeeds the run goes on to exit code 0.  The bullet planner's
\* batch holds the heading, the three title lines and three bullet texts of
\* one newline; the table planner's content batch holds the period row and
\* three cells of a title line only.
C10_EmptyBuckets ==
    AllEmpty =>
        /\ exc \in {"none", "HttpError"}
        /\ AllCallsOk => exc = "none" /\ pc # "main_except" /\ (pc = "done" => exitCode = 0)
        /\ pc \in {"bullet_submit", "table_submit1"} =>
              \A pb \in 1..2 : BatchValid(doc, requests, pb)
        /\ pc \in {"bullet_submit", "table_submit1"} =>
              requests[2].text = date_heading /\ Len(requests[2].text) > 0
        /\ pc = "bullet_submit" =>
              \A i \in 1..3 :
                  /\ requests[3 * i + 1].text = section_titles[i] \o <<NL>>
                  /\ requests[3 * i + 2].text = <<NL>>
        /\ pc = "table_submit2" =>
              /\ BatchValid(doc, text_requests, 2)
              /\ Len(text_requests) = 4
              /\ Len(text_requests[4].text) > 0
              /\ text_requests[4].text = table_rows[1]
              /\ \A i \in 1..3 : text_requests[4 - i].text = section_titles[i] \o <<NL>>

\* the table planner ran to the end on an empty summary
C10_Witness ==
    /\ AllEmpty
    /\ format = "table"
    /\ pc = "done"
    /\ exitCode = 0
    /\ Len(PlannerCalls) = 3

\* the shape the table planner expects: four rows of one cell
ExpectedShape(rows) == Len(rows) = 4 /\ \A k \in 1..Len(rows) : Len(rows[k]) = 1

\* round trip i is a read-back that found a table
ReadBackFound(i) ==
    /\ calls[i].op = "get"
    /\ calls[i].by = "table"
    /\ calls[i].ok
    /\ calls[i].result # <<>>

\* C4: when the table that the read-back found does not have four rows of
\* exactly one cell, the table planner ends in an error and submits no
\* content batch, not even one for some of the rows.
C4_MismatchIsFatal ==
    \A i \in 1..Len(calls) :
        (ReadBackFound(i) /\ ~ExpectedShape(calls[i].result)) =>
            /\ \A j \in (i + 1)..Len(calls) : calls[j].op # "batchUpdate"
            /\ pc = "done" => exitCode = 1 /\ exc # "none"

\* the inserts of the pairs of zip(table_rows, cell_indexes) in the order of
\* the list, first row first, with the offsets as read
AscendingBatch ==
    [k \in 1..Len(ZipRows(table_rows, cell_indexes)) |->
        InsertText(ZipRows(table_rows, cell_indexes)[k].index,
                   ZipRows(table_rows, cell_indexes)[k].text)]

\* in the ascending simulation, the locator of row k is no longer the start
\* of row k's cell when its insert is applied
StaleAtUse(k) ==
    FirstCellStart(DocAfter(doc, AscendingBatch, k - 1, 2), k) # AscendingBatch[k].index

FourTexts == Len(table_rows) = 4 /\ \A k \in 1..4 : table_rows[k] # <<>>

\* C8 as stated: with four locators of one snapshot and non-empty texts, the
\* inserts simulated in ascending order (L0, L1, L2, L3) find L0, L1 and L2
\* corrupted at the moment each is used.
C8_AscendingCorruptsL0toL2 ==
    (SnapshotOfFour /\ FourTexts) => \A k \in 1..3 : StaleAtUse(k)

\* C8 amended: the inserts simulated in ascending order find L1, L2 and L3
\* corrupted at the moment each is used, and L0, used first, still valid.
C8_AscendingCorruptsL1toL3 ==
    (SnapshotOfFour /\ FourTexts) =>
        /\ ~StaleAtUse(1)
        /\ \A k \in 2..4 : StaleAtUse(k)

\* the simulation on four locators: the last one is off by the length of
\* the three texts inserted before it
C8_Witness ==
    /\ SnapshotOfFour
    /\ FourTexts
    /\ FirstCellStart(DocAfter(doc, AscendingBatch, 3, 2), 4)
           = cell_indexes[4] + Len(Encode(table_rows[1])) + Len(Encode(table_rows[2]))
                 + Len(Encode(table_rows[3]))
    /\ parsed_info.inprogress # <<>>

\* The table layout the read-back returned is no longer that of the
\* document: a change of the length in front of the table moves every cell
\* start, a change of the table's shape changes the rows or their cells.
ChangedSinceRead ==
    /\ Len(PlannerCalls) = 2
    /\ PlannerCalls[2].ok
    /\ (Tables(doc) = <<>> \/ LastTableRows(doc) # PlannerCalls[2].result)

\* C11: when another writer has changed the document's length or the
\* table's shape between the read-back and the submission of the content
\* batch, the run fails: the step of the planner that follows applies nothing
\* to the document and ends in the error path.
C11_StaleLocatorsFailRun ==
    [][(pc = "table_submit2" /\ ChangedSinceRead /\ pc' # pc)
           => (doc' = doc /\ pc' = "main_except")]_vars

----------------------------------------------------------------------------
(* The summary parser. *)

\* the first place from position from on where the literal lit occurs in s,
\* or 0
FirstOccurrence(s, lit, from) ==
    IF \E i \in from..Len(s) : MatchesAt(s, i, lit)
    THEN Min({ i \in from..Len(s) : MatchesAt(s, i, lit) })
    ELSE 0

\* the text between the first opening tag and the first closing tag after
\* it, trimmed; the empty text when there is no such pair
FirstPairText(s, tag) ==
    LET o == FirstOccurrence(s, OpenTag(tag), 1)
        c == IF o = 0 THEN 0
             ELSE FirstOccurrence(s, CloseTag(tag), o + Len(OpenTag(tag)))
    IN  IF o = 0 \/ c = 0 THEN <<>>
        ELSE StripSpace(SubSeq(s, o + Len(OpenTag(tag)), c - 1))

Parsed == pc = "main_read"

\* C12: for every input text and each of the three tags, the slot the
\* parser returns is the trimmed text between the first opening tag and the
\* first closing tag after it, whatever the order of the tags and the text
\* around them; later occurrences are ignored, and a tag without such a
\* pair gives the empty string.
C12_FirstPairTrimmed ==
    Parsed =>
        /\ parsed_info.completed = FirstPairText(gemini_response, "completed")
        /\ parsed_info.inprogress = FirstPairText(gemini_response, "inprogress")
        /\ parsed_info.new = FirstPairText(gemini_response, "new")

\* the first pair of "completed" is not at the start of the text, the text
\* holds two closing tags of "completed", and no pair of "new"
C12_Witness ==
    /\ Parsed
    /\ parsed_info.completed = <<"a">>
    /\ FirstOccurrence(gemini_response, OpenTag("completed"), 1) > 1
    /\ LET c == FirstOccurrence(gemini_response, CloseTag("completed"), 1)
       IN  FirstOccurrence(gemini_response, CloseTag("completed"), c + 1) # 0
    /\ parsed_info.new = <<>>

----------------------------------------------------------------------------
(* The line normalizer. *)

Normalized == pc = "normalized"

\* C13: joining the LineBlock with newlines and normalizing the result
\* again gives the same LineBlock.
C13_Idempotent ==
    Normalized => bullet_lines(Join(line_block, <<NL>>)) = line_block

\* C14: every element of a LineBlock is a non-empty string without white
\* space at either end.
C14_NoEmptyElement ==
    Normalized =>
        \A i \in 1..Len(line_block) :
            line_block[i] # <<>> /\ StripSpace(line_block[i]) = line_block[i]

\* C15: the marker characters are taken from the left edge of a line only:
\* a raw text of one line that is not blank becomes that line without its
\* leading marker characters, trimmed, and keeps the marker characters at
\* its right end.
C15_LeftEdgeOnly ==
    (Normalized /\ FirstNL(raw_text) = 0 /\ StripSpace(raw_text) # <<>>) =>
        line_block = <<StripSpace(LStrip(raw_text, MarkerChars))>>

----------------------------------------------------------------------------
(* The table the read-back selects, and the table when the run is over. *)

\* the tables that were not in the document when main read its end offset
NewTables(d) == { p \in 1..Len(d) : d[p] = "<table>" /\ p >= end_index }

ReadBackDone == pc = "table_content"

\* the read-back succeeded and held no table
ReadBackHeldNoTable ==
    /\ Len(PlannerCalls) >= 2
    /\ PlannerCalls[2].op = "get"
    /\ PlannerCalls[2].ok
    /\ PlannerCalls[2].result = <<>>

\* C16: with a single writer the locators of the read-back are the cell
\* starts of the one table this run's structural batch created, four rows
\* of one cell, also when the document held a table before the run; and a
\* read-back that holds no table ends the planner with an error, no content
\* batch built or submitted.
C16_ReadsOwnTable ==
    /\ (ReadBackDone /\ otherEdits = 0) =>
           /\ Cardinality(NewTables(doc)) = 1
           /\ \A t \in NewTables(doc) :
                  /\ PlannerCalls[2].result = TableRows(doc, t)
                  /\ cell_indexes = CellIndexes(TableRows(doc, t))
                  /\ Len(cell_indexes) = 4
                  /\ \A k \in 1..4 : cell_indexes[k] > t
    /\ ReadBackHeldNoTable =>
           /\ exc = "ValueError"
           /\ Len(PlannerCalls) = 2
           /\ text_requests = <<>>
           /\ pc \in {"main_except", "done"}
           /\ exitCode # 0

\* the read-back of a document that held the table of an earlier report
C16_Witness ==
    /\ ReadBackDone
    /\ otherEdits = 0
    /\ Len(Tables(doc)) = 2
    /\ cell_indexes = CellIndexes(LastTableRows(doc))

\* the i-th prepared string: the period text, then the three sections
PreparedString(i) ==
    CASE i = 1 -> <<"P", "e", "r", "i", "o", "d", " ", "f", "r", "o", "m", " ">>
                      \o period_start \o <<" ", "t", "o", " ">> \o period_end
      [] i = 2 -> section_titles[1] \o <<NL>>
                      \o format_bullet_text(parsed_info.completed, "completed")
      [] i = 3 -> section_titles[2] \o <<NL>>
                      \o format_bullet_text(parsed_info.inprogress, "inprogress")
      [] i = 4 -> section_titles[3] \o <<NL>>
                      \o format_bullet_text(parsed_info.new, "new")

\* the units of the first cell of the row at place row, without the
\* newline that ends the row's last cell
CellUnits(d, row) == SubSeq(d, CellStarts(d, row)[1] + 1, RowClose(d, row) - 2)

\* C17: after a successful run of the table planner the table has four
\* rows of one cell, and the cell of row i holds exactly the i-th prepared
\* string: none of it is in another cell, and nothing else is in this one.
C17_EachCellItsString ==
    (PlannerReturned /\ format = "table" /\ PlannerCalls # <<>>) =>
        LET rows == RowPositions(doc, LastTable(doc))
        IN  /\ Len(rows) = 4
            /\ \A r \in 1..4 :
                   /\ Len(CellStarts(doc, rows[r])) = 1
                   /\ CellUnits(doc, rows[r]) = Encode(PreparedString(r))
                   /\ doc[RowClose(doc, rows[r]) - 1] = NL

\* a finished table run whose three sections differ from one another
C17_Witness ==
    /\ PlannerReturned
    /\ format = "table"
    /\ Len(PlannerCalls) = 3
    /\ parsed_info.completed # <<>>
    /\ parsed_info.inprogress # parsed_info.completed
    /\ parsed_info.new = <<>>
    /\ CellUnits(doc, RowPositions(doc, LastTable(doc))[2]) = Encode(PreparedString(2))

----------------------------------------------------------------------------
(* get_commits. *)

Returned == pc = "main_commits"

\* the pages requested so far
Requested == { fetch_log[i].page : i \in 1..Len(fetch_log) }

\* the commits listed on the pages requested so far
Fetched == UNION { Range(pages[p]) : p \in Requested }

\* a request was followed by another one only if it was answered with 200,
\* its page listed no commit dated before from_date and had a next link,
\* and the request that followed was for that next page
NoRequestAfterStop ==
    /\ fetch_log # <<>> => fetch_log[1].page = 1
    /\ \A i \in 1..(Len(fetch_log) - 1) :
           /\ fetch_log[i].status_code = 200
           /\ \A c \in Range(pages[fetch_log[i].page]) : c.date >= from_date
           /\ fetch_log[i].page < Len(pages)
           /\ fetch_log[i + 1].page = fetch_log[i].page + 1

\* every record collected is made of a fetched commit that is dated within
\* the period, is of the configured author by email or by username, and
\* whose trimmed message does not begin with the word merge
RecordsFiltered ==
    \A k \in 1..Len(commits) :
        \E c \in Fetched :
            /\ commits[k].url = CommitUrl(c.hash)
            /\ from_date <= c.date /\ c.date <= to_date
            /\ commits[k].date = DateOnly(c.date)
            /\ (BITBUCKET_EMAIL \in Range(c.raw) \/ c.username = BITBUCKET_USERNAME)
            /\ commits[k].message = StripSpace(c.message)
            /\ ~IsMerge(commits[k].message)

\* without from_date or to_date nothing is requested and nothing returned
NothingWithoutDates ==
    (from_date = None \/ to_date = None) => (fetch_log = <<>> /\ commits = <<>>)

\* C18: over every chain of pages get_commits returns; it requests no page
\* after one with a commit dated before from_date, after a response other
\* than 200, or after a page without a next link; every record it returns
\* is dated within the period, of the configured author, and not a merge;
\* and with a date missing it returns the empty list without any request.
C18_FetchStopsAndFilters ==
    /\ [](NoRequestAfterStop /\ RecordsFiltered /\ NothingWithoutDates)
    /\ <>Returned

\* two pages, the first answered with 200 and not followed by a request for
\* the second: it lists a merge, a commit that is returned, and a commit
\* dated before the period
C18_Witness ==
    /\ Returned
    /\ Len(pages) = 2
    /\ Len(fetch_log) = 1
    /\ fetch_log[1].status_code = 200
    /\ Len(pages[1]) = 3
    /\ IsMerge(StripSpace(pages[1][1].message))
    /\ Len(commits) = 1
    /\ commits[1].url = CommitUrl(2)
    /\ pages[1][3].date < from_date

----------------------------------------------------------------------------
(* The order of the steps of main. *)

Finished == pc = "done"

IsMainCall(c) == c.by = "main"

\* the reads of the document's end offset that main made
EndOffsetReads == SelectSeq(calls, IsMainCall)

\* the planners that made a round trip; a planner that was invoked has made
\* one when the run is over
PlannersInvoked == { calls[i].by : i \in 1..Len(calls) } \ {"main"}

\* the fetch returned no record: the run is over without a call to the
\* generator or to the document service, the document as it was
ExitsBeforeAnyCall ==
    (Finished /\ commits = <<>>) =>
        /\ gemini_calls = 0
        /\ calls = <<>>
        /\ doc \in InitDocs
        /\ exitCode = 0

====
